---- MODULE Spec2Model ----
(***************************************************************************)
(* The news ingestion pipeline process_financial_news of the two scripts   *)
(* finance_ai_agent/finance_news.py ("finance") and                        *)
(* first_ai_agent/finance_news.py ("first"), with the capabilities it      *)
(* calls: execute_brave_search, get_article_content, the chat summarizer   *)
(* and store_article_in_supabase.  A run is one call of                    *)
(* process_financial_news; pc is the position of that call.                *)
(*                                                                         *)
(* Texts are modelled by what the code reads of them: a url is a sequence  *)
(* of characters, a fetched body is its length, a summary text is          *)
(* (leading whitespace, core, trailing whitespace) lengths.                *)
(*                                                                         *)
(* The list that execute_brave_search returns is read by the article loop  *)
(* one element per iteration and by nothing else, so the model fixes its   *)
(* length when the search returns and draws each element when its          *)
(* iteration starts.  The loop variable article and the local content are  *)
(* bound anew before they are read again, so the model forgets them when   *)
(* an iteration ends.  The code reads of a url only whether it is None or   *)
(* empty, how it ends, its host part, and whether it is in unique_urls, so  *)
(* the urls U2, U3, U4, alike in all of that, are named in the order in     *)
(* which the run first marks them.                                          *)
(***************************************************************************)
EXTENDS Integers, Sequences, FiniteSets, TLC

VARIABLES
    variant,          \* which script runs: "finance" or "first"
    pc,               \* position inside process_financial_news
    qi,               \* index of the current query in search_queries
    nArticles,        \* len(articles) of the current query
    ci,               \* index of the current article in articles
    article,          \* the current article, articles[ci]
    unique_urls,      \* set of urls already considered
    unique_articles,  \* list of accepted articles
    content,          \* length of the content of the current article
    searchLog,        \* queries handed to the search provider, in order
    fetchCalls,       \* url -> number of get_article_content calls
    summarizeCalls,   \* url -> number of chat.send_message_async calls
    storeLog,         \* urls handed to store_article_in_supabase, in order
    inserted,         \* number of rows inserted into the finance_news table
    lastSummary,      \* how the last summarizer call ended
    waited,           \* time spent in asyncio.sleep since that call ended
    insertLog,        \* rows handed to the insert of the finance_news table
    returned          \* what the function under study returned

\* the state of the function, and the record of the calls it made
locals == <<qi, nArticles, ci, article, unique_urls, unique_articles, content>>
record == <<searchLog, fetchCalls, summarizeCalls, storeLog, inserted,
           lastSummary, waited, insertLog>>
vars == <<variant, pc, locals, record, returned>>

-----------------------------------------------------------------------------
(* Bounds *)

\* longest result list a search returns in the model
MaxResults == 2

-----------------------------------------------------------------------------
(* Values *)

\* Python's None (a one-element sequence that is no character string)
None == <<"None">>

Variants == {"finance", "first"}

\* search_queries of each script
search_queries ==
    IF variant = "finance"
    THEN <<"stock market news today", "financial markets update",
           "market analysis today">>
    ELSE <<"stock market news today", "financial markets update",
           "market analysis today", "trading stocks news",
           "market movers today">>

\* the target number of articles of each script
TargetFinance == 3
TargetFirst == 5
Quota == IF variant = "finance" THEN TargetFinance ELSE TargetFirst

\* thresholds and delays
MinFetchedLength == 100
MinContentLength == 500
MinSummaryLength == 50
PacingDelay == 3
BackoffDelay == 5

\* urls the search provider may return
U1 == <<"h", ":", "/", "/", "a", "/", "1">>
U2 == <<"h", ":", "/", "/", "a", "/", "2">>
U3 == <<"h", ":", "/", "/", "b", "/", "3">>
U4 == <<"h", ":", "/", "/", "b", "/", "4">>
UCom == <<"h", ":", "/", "/", "a", ".", "c", "o", "m">>
AllUrls == {U1, U2, U3, U4, UCom, None}

\* results of the search provider: title and url (description is never read)
ResultPool ==
    {[title |-> <<"T">>, url |-> u] : u \in {U2, U3, U4, UCom, None}}
        \cup {[title |-> None, url |-> U1]}

\* outcomes of requests.get + raise_for_status in execute_brave_search
SearchOutcomes == {"ok", "http_error", "conn_error"}

\* outcomes of the page fetch: an exception, or the length of the cleaned text
FetchOutcomes ==
    {[raised |-> TRUE, len |-> 0]}
        \cup {[raised |-> FALSE, len |-> n] : n \in {99, 499, 500}}

\* texts the summarizer may answer: no text (None), or whitespace around a core
SummaryTexts ==
    {[none |-> TRUE, lead |-> 0, core |-> 0, trail |-> 0],
     [none |-> FALSE, lead |-> 0, core |-> 0, trail |-> 0],
     [none |-> FALSE, lead |-> 1, core |-> 49, trail |-> 1],
     [none |-> FALSE, lead |-> 0, core |-> 50, trail |-> 0],
     [none |-> FALSE, lead |-> 1, core |-> 51, trail |-> 0]}

\* outcomes of the insert into the datastore
InsertOutcomes == {"ok", "error"}

-----------------------------------------------------------------------------
(* Pure helpers *)

Min(S) == CHOOSE x \in S : \A y \in S : x <= y

\* truth value of a Python str-or-None
Truthy(s) == s # None /\ s # <<>>

EndsWith(s, suf) ==
    Len(s) >= Len(suf) /\ SubSeq(s, Len(s) - Len(suf) + 1, Len(s)) = suf

\* str.endswith((".com", ".com/"))
EndsWithCom(url) ==
    \/ EndsWith(url, <<".", "c", "o", "m">>)
    \/ EndsWith(url, <<".", "c", "o", "m", "/">>)

\* str.split(sep): non-overlapping occurrences, left to right
RECURSIVE Split(_, _)
Split(s, sep) ==
    LET n == Len(sep)
        idxs == {i \in 1..(Len(s) - n + 1) : SubSeq(s, i, i + n - 1) = sep}
    IN IF idxs = {} THEN <<s>>
       ELSE LET i == Min(idxs)
            IN <<SubSeq(s, 1, i - 1)>> \o Split(SubSeq(s, i + n, Len(s)), sep)

\* url.split("//")[-1].split("/")[0]
Source(url) ==
    LET a == Split(url, <<"/", "/">>)
        b == Split(a[Len(a)], <<"/">>)
    IN b[1]

\* len(text) and text.strip() of a summary text
TextLen(t) == t.lead + t.core + t.trail
Strip(t) == [none |-> FALSE, lead |-> 0, core |-> t.core, trail |-> 0]

ZeroCalls == [u \in AllUrls |-> 0]

\* total number of calls in a url -> count map
RECURSIVE SumOver(_, _)
SumOver(counts, S) ==
    IF S = {} THEN 0
    ELSE LET u == CHOOSE x \in S : TRUE
         IN counts[u] + SumOver(counts, S \ {u})
Total(counts) == SumOver(counts, AllUrls)

\* truth value of a summary text: neither None nor ""
TextTruthy(t) == ~t.none /\ TextLen(t) > 0

\* the loop variable and the content outside an iteration
NoArticle == [title |-> None, url |-> None]
NoContent == 0

\* what a call has returned: nothing yet, None, or a bool
NotReturned == [kind |-> "pending", value |-> <<>>]
ReturnsNone == [kind |-> "None", value |-> <<>>]
ReturnsBool(b) == [kind |-> "bool", value |-> b]

-----------------------------------------------------------------------------
(* The capabilities *)

\* the result filter of the finance script: a url, and not a bare .com site
KeepResult(result) == Truthy(result.url) /\ ~EndsWithCom(result.url)

\* the elements a list returned by execute_brave_search can hold
SearchResults ==
    IF variant = "finance"
    THEN {result \in ResultPool : KeepResult(result)}
    ELSE ResultPool

\* the plain urls, in the order in which a run first meets them
PlainUrls == <<U2, U3, U4>>

\* the elements the next iteration of the article loop can find in the list:
\* any result with a special or an already marked url, and the result with
\* the first plain url that is not marked yet
NextResults ==
    {result \in SearchResults :
        \A i \in DOMAIN PlainUrls :
            (result.url = PlainUrls[i] /\ result.url \notin unique_urls) =>
                \A j \in 1..(i - 1) : PlainUrls[j] \in unique_urls}

\* execute_brave_search: the length of the list it returns (n results pass
\* the filter), or raised when an exception leaves it.  A RequestException
\* always has the attribute response, which is None when no HTTP response
\* exists; the finance handler then evaluates e.response.text, and that
\* AttributeError leaves the function.
execute_brave_search(outcome, n) ==
    CASE outcome = "ok" -> [raised |-> FALSE, len |-> n]
      [] outcome = "http_error" -> [raised |-> FALSE, len |-> 0]
      [] outcome = "conn_error" ->
            [raised |-> (variant = "finance"), len |-> 0]

\* get_article_content: length of the text it returns ("" has length 0)
get_article_content(url, outcome) ==
    IF url = None \/ outcome.raised THEN 0
    ELSE IF outcome.len < MinFetchedLength THEN 0
    ELSE outcome.len

\* the row store_article_in_supabase builds (created_at is never read)
Row(a) ==
    [title |-> a.title, url |-> a.url, finance_info |-> a.summary,
     source |-> Source(a.url)]

\* the validation with any() in the place of all()
store_article_in_supabaseAny(a, ins) ==
    IF a.url = None
    THEN [ok |-> FALSE, insert |-> FALSE, data |-> a]
    ELSE IF ~(\/ Truthy(Row(a).title)
              \/ Truthy(Row(a).url)
              \/ TextTruthy(Row(a).finance_info)
              \/ Truthy(Row(a).source))
    THEN [ok |-> FALSE, insert |-> FALSE, data |-> Row(a)]
    ELSE [ok |-> (ins = "ok"), insert |-> TRUE, data |-> Row(a)]

\* store_article_in_supabase: its return value (ok), whether the insert was
\* executed (insert), and the row.  None.split raises, and every exception
\* is caught and answered with False.
store_article_in_supabase(a, ins) ==
    IF a.url = None
    THEN [ok |-> FALSE, insert |-> FALSE, data |-> a]
    ELSE IF ~(/\ Truthy(Row(a).title)
              /\ Truthy(Row(a).url)
              /\ TextTruthy(Row(a).finance_info)
              /\ Truthy(Row(a).source))
    THEN [ok |-> FALSE, insert |-> FALSE, data |-> Row(a)]
    ELSE [ok |-> (ins = "ok"), insert |-> TRUE, data |-> Row(a)]

-----------------------------------------------------------------------------
(* The conditions of process_financial_news *)

\* the quota check off by one
QuotaReachedLate == Len(unique_articles) > Quota

\* len(unique_articles) >= 3 (finance), >= 5 (first)
QuotaReached == Len(unique_articles) >= Quota

\* the duplicate check left out
AlreadySeenNever(url) == FALSE

\* url in unique_urls
AlreadySeen(url) == url \in unique_urls

\* the url not added to the set
MarkSeenForgets(url) == unique_urls

\* the set replaced by the url in the place of the url added to it
MarkSeenOnly(url) == {url}

\* unique_urls.add(url)
MarkSeen(url) == unique_urls \cup {url}

\* the length check left out: only empty content is refused
ContentTooShortOnlyEmpty(c) == c = 0

\* not content or len(content) < 500
ContentTooShort(c) == c = 0 \/ c < MinContentLength

\* analysis and analysis.text
HasText(t) == TextTruthy(t)

\* the summary taken without strip()
SummaryOfUnstripped(t) == t

\* article['summary'] = analysis.text.strip()
SummaryOf(t) == Strip(t)

\* the length check with >= in the place of >
SummaryOkAtLeast(summary) == TextLen(summary) >= MinSummaryLength

\* len(article['summary']) > 50
SummaryOk(summary) == TextLen(summary) > MinSummaryLength

WithSummary(a, summary) ==
    [title |-> a.title, url |-> a.url, summary |-> summary]

Bump(counts, url) == [counts EXCEPT ![url] = @ + 1]

-----------------------------------------------------------------------------
(* The run *)

Init ==
    /\ variant \in Variants
    /\ pc = "query"
    /\ qi = 1
    /\ nArticles = 0
    /\ ci = 1
    /\ article = NoArticle
    /\ unique_urls = {}
    /\ unique_articles = <<>>
    /\ content = NoContent
    /\ searchLog = <<>>
    /\ fetchCalls = ZeroCalls
    /\ summarizeCalls = ZeroCalls
    /\ storeLog = <<>>
    /\ inserted = 0
    /\ lastSummary = "none"
    /\ waited = 0
    /\ insertLog = <<>>
    /\ returned = NotReturned

\* continue, or the end of the body of the article loop
NextArticle ==
    /\ ci' = ci + 1
    /\ pc' = "candidate"
    /\ article' = NoArticle
    /\ content' = NoContent
    /\ UNCHANGED <<qi, nArticles>>

\* the end of the article loop, by exhaustion or by break
NextQuery ==
    /\ qi' = qi + 1
    /\ pc' = "query"
    /\ article' = NoArticle
    /\ content' = NoContent
    /\ UNCHANGED <<nArticles, ci>>

\* the end of the function handing back the list
QueriesExhaustedReturnsList ==
    /\ pc = "query"
    /\ qi > Len(search_queries)
    /\ pc' = "done"
    /\ returned' = [kind |-> "list", value |-> unique_articles]
    /\ UNCHANGED <<variant, locals, record>>

\* for query in search_queries: all queries done; the function ends without
\* a return statement
QueriesExhausted ==
    /\ pc = "query"
    /\ qi > Len(search_queries)
    /\ pc' = "done"
    /\ returned' = ReturnsNone
    /\ UNCHANGED <<variant, locals, record>>

\* the head of the query loop without its quota check
QueryHeadNoBreak ==
    /\ pc = "query"
    /\ qi <= Len(search_queries)
    /\ pc' = "search"
    /\ UNCHANGED <<variant, returned, locals, record>>

\* for query in search_queries: the quota check at the head of the body
QueryHead ==
    /\ pc = "query"
    /\ qi <= Len(search_queries)
    /\ pc' = IF QuotaReached THEN "done" ELSE "search"
    /\ returned' = IF QuotaReached THEN ReturnsNone ELSE returned
    /\ UNCHANGED <<variant, locals, record>>

\* articles = execute_brave_search(query)
Search ==
    /\ pc = "search"
    /\ \E outcome \in SearchOutcomes, n \in 0..MaxResults :
          LET r == execute_brave_search(outcome, n)
          IN /\ searchLog' = Append(searchLog, search_queries[qi])
             /\ IF r.raised
                THEN /\ pc' = "aborted"
                     /\ returned' = ReturnsNone
                     /\ UNCHANGED <<nArticles, ci>>
                ELSE /\ pc' = "candidate"
                     /\ nArticles' = r.len
                     /\ ci' = 1
                     /\ UNCHANGED returned
    /\ UNCHANGED <<variant, qi, article, unique_urls, unique_articles, content,
                   fetchCalls, summarizeCalls, storeLog, inserted,
                   lastSummary, waited, insertLog>>

\* for article in articles: all articles of the query done
CandidatesExhausted ==
    /\ pc = "candidate"
    /\ ci > nArticles
    /\ NextQuery
    /\ UNCHANGED <<variant, returned, unique_urls, unique_articles, record>>

\* the head of the body of the article loop: skip, break, or mark the url
CandidateHead ==
    /\ pc = "candidate"
    /\ ci <= nArticles
    /\ \E a \in NextResults :
          IF variant = "finance"
          THEN IF AlreadySeen(a.url) \/ QuotaReached
               THEN NextArticle /\ UNCHANGED unique_urls
               ELSE /\ article' = a
                    /\ unique_urls' = MarkSeen(a.url)
                    /\ pc' = "fetch"
                    /\ UNCHANGED <<qi, nArticles, ci, content>>
          ELSE IF AlreadySeen(a.url)
               THEN NextArticle /\ UNCHANGED unique_urls
               ELSE IF QuotaReached
               THEN NextQuery /\ UNCHANGED unique_urls
               ELSE /\ article' = a
                    /\ unique_urls' = MarkSeen(a.url)
                    /\ pc' = "fetch"
                    /\ UNCHANGED <<qi, nArticles, ci, content>>
    /\ UNCHANGED <<variant, returned, unique_articles, record>>

\* content = get_article_content(url)
Fetch ==
    /\ pc = "fetch"
    /\ fetchCalls' = Bump(fetchCalls, article.url)
    /\ \E outcome \in FetchOutcomes :
          content' = get_article_content(article.url, outcome)
    /\ pc' = "gate"
    /\ UNCHANGED <<variant, returned, qi, nArticles, ci, article, unique_urls,
                   unique_articles, searchLog, summarizeCalls, storeLog,
                   inserted, lastSummary, waited, insertLog>>

\* if not content or len(content) < 500: continue
ContentGate ==
    /\ pc = "gate"
    /\ IF ContentTooShort(content)
       THEN NextArticle
       ELSE /\ pc' = "summarize"
            /\ UNCHANGED <<qi, nArticles, ci, article, content>>
    /\ UNCHANGED <<variant, returned, unique_urls, unique_articles, record>>

\* the summarizer call without its own try/except in both scripts
SummarizeRaisesUncaught ==
    /\ pc = "summarize"
    /\ summarizeCalls' = Bump(summarizeCalls, article.url)
    /\ lastSummary' = "failed"
    /\ waited' = 0
    /\ pc' = "aborted"
    /\ returned' = ReturnsNone
    /\ UNCHANGED <<variant, locals, searchLog, fetchCalls, storeLog,
                   inserted, insertLog>>

\* analysis = await chat.send_message_async(analysis_prompt) raises: the
\* except branch of the finance script, the outer handler of the first one
SummarizeRaises ==
    /\ pc = "summarize"
    /\ summarizeCalls' = Bump(summarizeCalls, article.url)
    /\ lastSummary' = "failed"
    /\ waited' = 0
    /\ pc' = IF variant = "finance" THEN "backoff" ELSE "aborted"
    /\ returned' = IF variant = "finance" THEN returned ELSE ReturnsNone
    /\ UNCHANGED <<variant, locals, searchLog, fetchCalls, storeLog,
                   inserted, insertLog>>

\* analysis = await chat.send_message_async(analysis_prompt) returns;
\* if analysis and analysis.text: article['summary'] = analysis.text.strip()
SummarizeReturns ==
    /\ pc = "summarize"
    /\ summarizeCalls' = Bump(summarizeCalls, article.url)
    /\ waited' = 0
    /\ \E t \in SummaryTexts :
          IF HasText(t)
          THEN /\ article' = WithSummary(article, SummaryOf(t))
               /\ lastSummary' = "returned"
               /\ pc' = "summary_gate"
               /\ UNCHANGED <<qi, nArticles, ci, content>>
          ELSE /\ NextArticle
               /\ lastSummary' = "rejected"
    /\ UNCHANGED <<variant, returned, unique_urls, unique_articles, searchLog,
                   fetchCalls, storeLog, inserted, insertLog>>

\* the gate with the store call outside the length check
SummaryGateStoresAll ==
    /\ pc = "summary_gate"
    /\ IF SummaryOk(article.summary)
       THEN /\ unique_articles' = Append(unique_articles, article)
            /\ lastSummary' = "accepted"
       ELSE /\ lastSummary' = "rejected"
            /\ UNCHANGED unique_articles
    /\ pc' = "store"
    /\ UNCHANGED <<qi, nArticles, ci, article, content>>
    /\ UNCHANGED <<variant, returned, unique_urls, searchLog, fetchCalls,
                   summarizeCalls, storeLog, inserted, waited, insertLog>>

\* the gate with insert(0, article) in the place of append(article)
SummaryGatePrepends ==
    /\ pc = "summary_gate"
    /\ IF SummaryOk(article.summary)
       THEN /\ unique_articles' = <<article>> \o unique_articles
            /\ lastSummary' = "accepted"
            /\ pc' = "store"
            /\ UNCHANGED <<qi, nArticles, ci, article, content>>
       ELSE /\ NextArticle
            /\ lastSummary' = "rejected"
            /\ UNCHANGED unique_articles
    /\ UNCHANGED <<variant, returned, unique_urls, searchLog, fetchCalls,
                   summarizeCalls, storeLog, inserted, waited, insertLog>>

\* if len(article['summary']) > 50: unique_articles.append(article)
SummaryGate ==
    /\ pc = "summary_gate"
    /\ IF SummaryOk(article.summary)
       THEN /\ unique_articles' = Append(unique_articles, article)
            /\ lastSummary' = "accepted"
            /\ pc' = "store"
            /\ UNCHANGED <<qi, nArticles, ci, article, content>>
       ELSE /\ NextArticle
            /\ lastSummary' = "rejected"
            /\ UNCHANGED unique_articles
    /\ UNCHANGED <<variant, returned, unique_urls, searchLog, fetchCalls,
                   summarizeCalls, storeLog, inserted, waited, insertLog>>

\* a store whose failure takes the article back out of the list
StoreRollsBack ==
    /\ pc = "store"
    /\ storeLog' = Append(storeLog, article.url)
    /\ \E ins \in InsertOutcomes :
          LET r == store_article_in_supabase(article, ins)
          IN /\ inserted' = IF r.ok THEN inserted + 1 ELSE inserted
             /\ insertLog' = IF r.insert THEN Append(insertLog, r.data)
                                          ELSE insertLog
             /\ unique_articles' =
                   IF r.ok THEN unique_articles
                   ELSE SubSeq(unique_articles, 1, Len(unique_articles) - 1)
    /\ IF variant = "finance"
       THEN /\ pc' = "pacing"
            /\ UNCHANGED <<qi, nArticles, ci, article, content>>
       ELSE NextArticle
    /\ UNCHANGED <<variant, returned, unique_urls, searchLog, fetchCalls,
                   summarizeCalls, lastSummary, waited>>

\* store_article_in_supabase(article); its return value is dropped
Store ==
    /\ pc = "store"
    /\ storeLog' = Append(storeLog, article.url)
    /\ \E ins \in InsertOutcomes :
          LET r == store_article_in_supabase(article, ins)
          IN /\ inserted' = IF r.ok THEN inserted + 1 ELSE inserted
             /\ insertLog' = IF r.insert THEN Append(insertLog, r.data)
                                          ELSE insertLog
    /\ IF variant = "finance"
       THEN /\ pc' = "pacing"
            /\ UNCHANGED <<qi, nArticles, ci, article, content>>
       ELSE NextArticle
    /\ UNCHANGED <<variant, returned, unique_urls, unique_articles, searchLog,
                   fetchCalls, summarizeCalls, lastSummary, waited>>

\* the sleep after an accepted article not awaited
PacingNotAwaited ==
    /\ pc = "pacing"
    /\ waited' = waited
    /\ NextArticle
    /\ UNCHANGED <<variant, returned, unique_urls, unique_articles, searchLog,
                   fetchCalls, summarizeCalls, storeLog, inserted, lastSummary,
                   insertLog>>

\* await asyncio.sleep(3) after an accepted article (finance)
Pacing ==
    /\ pc = "pacing"
    /\ waited' = waited + PacingDelay
    /\ NextArticle
    /\ UNCHANGED <<variant, returned, unique_urls, unique_articles, searchLog,
                   fetchCalls, summarizeCalls, storeLog, inserted, lastSummary,
                   insertLog>>

\* the sleep in the except branch not awaited
BackoffNotAwaited ==
    /\ pc = "backoff"
    /\ waited' = waited
    /\ NextArticle
    /\ UNCHANGED <<variant, returned, unique_urls, unique_articles, searchLog,
                   fetchCalls, summarizeCalls, storeLog, inserted, lastSummary,
                   insertLog>>

\* await asyncio.sleep(5); continue, in the except branch (finance)
Backoff ==
    /\ pc = "backoff"
    /\ waited' = waited + BackoffDelay
    /\ NextArticle
    /\ UNCHANGED <<variant, returned, unique_urls, unique_articles, searchLog,
                   fetchCalls, summarizeCalls, storeLog, inserted, lastSummary,
                   insertLog>>

Next ==
    \/ QueriesExhausted
    \/ QueryHead
    \/ Search
    \/ CandidatesExhausted
    \/ CandidateHead
    \/ Fetch
    \/ ContentGate
    \/ SummarizeRaises
    \/ SummarizeReturns
    \/ SummaryGate
    \/ Store
    \/ Pacing
    \/ Backoff

Spec == Init /\ [][Next]_vars

\* a single thread of control: every call and every sleep returns, so the
\* function takes its next step whenever it has one
FairSpec == Spec /\ WF_vars(Next)

-----------------------------------------------------------------------------
(* One call of store_article_in_supabase, on any article *)

\* urls by their parts: scheme "://" authority path
UrlParts ==
    [scheme : {<<"h">>},
     authority : {<<>>, <<"a">>, <<"A", ".", "b">>},
     path : {<<>>, <<"/">>, <<"/", "p">>, <<"/", "p", "/", "/", "q">>}]

Render(u) == u.scheme \o <<":", "/", "/">> \o u.authority \o u.path

\* the articles handed to the call: title, url and summary present or not
SinkArticles ==
    [title : {None, <<>>, <<"T">>},
     url : {None, <<>>} \cup {Render(u) : u \in UrlParts},
     summary : {[none |-> TRUE, lead |-> 0, core |-> 0, trail |-> 0],
                [none |-> FALSE, lead |-> 0, core |-> 0, trail |-> 0],
                [none |-> FALSE, lead |-> 0, core |-> 51, trail |-> 0]}]

SinkInit ==
    /\ variant \in Variants
    /\ pc = "call"
    /\ article \in SinkArticles
    /\ qi = 1
    /\ nArticles = 0
    /\ ci = 1
    /\ unique_urls = {}
    /\ unique_articles = <<>>
    /\ content = NoContent
    /\ searchLog = <<>>
    /\ fetchCalls = ZeroCalls
    /\ summarizeCalls = ZeroCalls
    /\ storeLog = <<>>
    /\ inserted = 0
    /\ lastSummary = "none"
    /\ waited = 0
    /\ insertLog = <<>>
    /\ returned = NotReturned

\* store_article_in_supabase(article), from the call to the return
StoreCall ==
    /\ pc = "call"
    /\ storeLog' = Append(storeLog, article.url)
    /\ \E ins \in InsertOutcomes :
          LET r == store_article_in_supabase(article, ins)
          IN /\ inserted' = IF r.ok THEN inserted + 1 ELSE inserted
             /\ insertLog' = IF r.insert THEN Append(insertLog, r.data)
                                          ELSE insertLog
             /\ returned' = ReturnsBool(r.ok)
    /\ pc' = "returned"
    /\ UNCHANGED <<variant, locals, searchLog, fetchCalls, summarizeCalls,
                   lastSummary, waited>>

SinkSpec == SinkInit /\ [][StoreCall]_vars

-----------------------------------------------------------------------------
(* Properties of the run *)

\* C1: the number of accepted articles never exceeds the target quota.
C1_AcceptedWithinQuota == Len(unique_articles) <= Quota

\* the quota is reached while a further article of the query is waiting
C1_Witness ==
    /\ Len(unique_articles) = Quota
    /\ pc = "candidate"
    /\ ci <= nArticles

\* C2: no two accepted articles have the same url.
C2_UniqueUrls ==
    \A i, j \in DOMAIN unique_articles :
        i # j => unique_articles[i].url # unique_articles[j].url

\* the first query returned two articles; one was accepted and the other was
\* dropped without a fetch although the quota was not reached: a repeated url
C2_Witness ==
    /\ qi = 1
    /\ pc = "candidate"
    /\ ci = 3
    /\ Len(unique_articles) = 1
    /\ Total(fetchCalls) = 1

\* C3: once the quota is reached, no search, fetch or summarizer call is
\* issued any more.
C3_NoCallsAfterQuota ==
    [][QuotaReached =>
          /\ searchLog' = searchLog
          /\ fetchCalls' = fetchCalls
          /\ summarizeCalls' = summarizeCalls]_vars

\* the run ended on the quota with queries that were never searched
C3_Witness ==
    /\ pc = "done"
    /\ Len(unique_articles) >= Quota
    /\ Len(searchLog) < Len(search_queries)

\* C4: the content fetcher and the summarizer are each called at most once
\* per url.
C4_OncePerUrl ==
    \A u \in AllUrls : fetchCalls[u] <= 1 /\ summarizeCalls[u] <= 1

\* the first query returned two articles; the first was fetched and refused,
\* the second was dropped without a fetch: the refused url came again
C4_Witness ==
    /\ qi = 1
    /\ pc = "candidate"
    /\ ci = 3
    /\ unique_articles = <<>>
    /\ Total(fetchCalls) = 1

\* C5: an article whose content is empty or shorter than 500 is not
\* summarized, accepted or stored, and the loop goes on with the next
\* article; the summarizer is only ever called on content of at least 500.
C5_ShortContentRefused ==
    [][/\ (pc = "gate" /\ content < MinContentLength) =>
             /\ pc' = "candidate"
             /\ ci' = ci + 1
             /\ qi' = qi
             /\ unique_articles' = unique_articles
             /\ summarizeCalls' = summarizeCalls
             /\ storeLog' = storeLog
       /\ (summarizeCalls' # summarizeCalls) => content >= MinContentLength
      ]_vars

\* the first article of the run was fetched and refused without a summarizer
\* call, and the second one is being fetched
C5_Witness ==
    /\ qi = 1
    /\ ci = 2
    /\ pc = "fetch"
    /\ Total(fetchCalls) = 1
    /\ Total(summarizeCalls) = 0

\* C6: every accepted article has a summary that is trimmed and at least 50
\* long.
C6_SummaryLongEnough ==
    \A i \in DOMAIN unique_articles :
        LET summary == unique_articles[i].summary
        IN /\ summary.core >= MinSummaryLength
           /\ summary.lead = 0
           /\ summary.trail = 0

\* an article with its trimmed summary was accepted and is about to be stored
C6_Witness ==
    /\ pc = "store"
    /\ Len(unique_articles) >= 1
    /\ article.summary.core >= MinSummaryLength

\* C7: in the finance script a failing summarizer call does not end the run:
\* the article is not accepted, the backoff delay passes, and the loop goes on
\* with the next article of the same query, keeping the accepted articles.
C7_SummarizerFailureRecovered ==
    [][/\ (variant = "finance" /\ lastSummary' = "failed"
             /\ summarizeCalls' # summarizeCalls) =>
             /\ pc' = "backoff"
             /\ unique_articles' = unique_articles
             /\ storeLog' = storeLog
       /\ (pc = "backoff") =>
             /\ pc' = "candidate"
             /\ ci' = ci + 1
             /\ qi' = qi
             /\ nArticles' = nArticles
             /\ waited' = BackoffDelay
             /\ unique_articles' = unique_articles
             /\ summarizeCalls' = summarizeCalls
      ]_vars

\* after a failed summarizer call and the backoff, the next article of the
\* second query is fetched and the article accepted earlier is still there
C7_Witness ==
    /\ variant = "finance"
    /\ qi = 2
    /\ ci = 2
    /\ pc = "fetch"
    /\ lastSummary = "failed"
    /\ waited = BackoffDelay
    /\ Len(unique_articles) >= 1

\* C8: in the finance script a failing search call yields an empty list and
\* the query loop goes on; it never ends the run.
C8_SearchFailureRecovered ==
    [][(variant = "finance" /\ pc = "search") =>
          (pc' = "candidate" /\ qi' = qi)]_vars

\* C9: in the first script a failing summarizer call does not end the run.
C9_FirstSummarizerFailureRecovered ==
    [][(variant = "first" /\ pc = "summarize") => pc' # "aborted"]_vars

\* C10: a failing store is not fatal: the article stays in the list, the
\* count is not decremented and the loop goes on.
C10_StoreFailureNotFatal ==
    [][(pc = "store" /\ inserted' = inserted) =>
          /\ unique_articles' = unique_articles
          /\ unique_articles[Len(unique_articles)].url = article.url
          /\ \/ variant = "finance" /\ pc' = "pacing" /\ ci' = ci
             \/ variant = "first" /\ pc' = "candidate" /\ ci' = ci + 1
      ]_vars

\* two stores failed, one of them for the article without a title, both
\* articles are in the list and the next article is being fetched
C10_Witness ==
    /\ pc = "fetch"
    /\ Len(storeLog) = 2
    /\ inserted = 0
    /\ \E i \in DOMAIN storeLog : storeLog[i] = U1
    /\ Len(unique_articles) = 2

\* C11: every run reaches its end, on the quota or with all queries and
\* articles used up, whatever the calls answer.
C11_EndsOnQuotaOrExhaustion ==
    <>(pc = "done" /\ (QuotaReached \/ qi > Len(search_queries)))

\* C12: store_article_in_supabase answers False and executes no insert when
\* the title, the url, the summary or the source derived from the url is
\* missing or empty; it executes the insert only when all four are there.
C12_IncompleteNotInserted ==
    pc = "returned" =>
        LET complete == /\ Truthy(article.title)
                        /\ Truthy(article.url)
                        /\ TextTruthy(article.summary)
                        /\ Truthy(Source(article.url))
        IN /\ (insertLog # <<>>) <=> complete
           /\ ~complete => (returned = ReturnsBool(FALSE) /\ inserted = 0)

\* title, url and summary are there, the url has no host, and the call
\* answered False without an insert
C12_Witness ==
    /\ pc = "returned"
    /\ Truthy(article.title)
    /\ Truthy(article.url)
    /\ TextTruthy(article.summary)
    /\ Source(article.url) = <<>>
    /\ returned = ReturnsBool(FALSE)
    /\ insertLog = <<>>

\* C13: for every url scheme://authority[/path] the source of the inserted
\* row is the authority, case kept, also when the path holds "//" or is
\* missing.
C13_SourceIsAuthority ==
    \A i \in DOMAIN insertLog :
        \A u \in UrlParts :
            (u.authority # <<>> /\ insertLog[i].url = Render(u)) =>
                insertLog[i].source = u.authority

\* C14: an article whose url is empty or None is skipped: it is not added to
\* unique_urls and get_article_content is not called for it.
C14_NoUrlSkipped == None \notin unique_urls /\ fetchCalls[None] = 0

C16_ThresholdAccepted ==
    [][pc = "summary_gate" =>
          IF TextLen(article.summary) < MinSummaryLength
          THEN pc' = "candidate" /\ unique_articles' = unique_articles
          ELSE pc' = "store"
                 /\ unique_articles' = Append(unique_articles, article)
      ]_vars

\* C16 (amended): the summary gate refuses a trimmed length of 50 or less;
\* a summary of trimmed length 51 is the shortest that is accepted.
C16_ThresholdRefused ==
    [][pc = "summary_gate" =>
          IF TextLen(article.summary) <= MinSummaryLength
          THEN pc' = "candidate" /\ unique_articles' = unique_articles
          ELSE pc' = "store"
                 /\ unique_articles' = Append(unique_articles, article)
      ]_vars

\* a summary of trimmed length 51 went through the gate
C16_Witness ==
    /\ pc = "store"
    /\ article.summary.core = MinSummaryLength + 1
    /\ unique_articles[Len(unique_articles)] = article

\* C17: in the finance script a summarizer call that follows an accepted
\* article comes after the pacing delay (3), and one that follows a failed
\* call comes after the backoff delay (5).
C17_DelayBeforeNextSummary ==
    (variant = "finance" /\ pc = "summarize") =>
        /\ lastSummary = "accepted" => waited >= PacingDelay
        /\ lastSummary = "failed" => waited >= BackoffDelay

\* the summarizer is about to be called again after an accepted article and
\* the pacing delay
C17_Witness ==
    /\ variant = "finance"
    /\ pc = "summarize"
    /\ lastSummary = "accepted"
    /\ waited = PacingDelay
    /\ Total(summarizeCalls) >= 1

\* C18: store_article_in_supabase is called once for each accepted article
\* and for nothing else, and only after the content gate, a summarizer call
\* that returned, and the summary gate.
C18_StoredOncePerAccepted ==
    /\ Len(storeLog) =
          IF pc = "store" THEN Len(unique_articles) - 1
          ELSE Len(unique_articles)
    /\ \A i \in DOMAIN storeLog : storeLog[i] = unique_articles[i].url
    /\ \A i, j \in DOMAIN storeLog : i # j => storeLog[i] # storeLog[j]
    /\ pc = "store" =>
          /\ unique_articles[Len(unique_articles)] = article
          /\ content >= MinContentLength
          /\ summarizeCalls[article.url] = 1
          /\ lastSummary = "accepted"
          /\ TextLen(article.summary) > MinSummaryLength

\* two articles were accepted and stored, and a later one was refused by the
\* summary gate and not stored
C18_Witness ==
    /\ pc = "candidate"
    /\ Len(unique_articles) = 2
    /\ Len(storeLog) = 2
    /\ lastSummary = "rejected"
    /\ Total(summarizeCalls) = 3

\* C19: the run is sequential: when the fetch of an article or the search of
\* a query begins, every earlier article has finished its fetch, its store
\* and its delay.
C19_StepsCompleteBeforeNext ==
    pc \in {"fetch", "search"} =>
        /\ Total(fetchCalls) =
              IF pc = "fetch" THEN Cardinality(unique_urls) - 1
              ELSE Cardinality(unique_urls)
        /\ Len(storeLog) = Len(unique_articles)
        /\ variant = "finance" =>
              /\ lastSummary = "accepted" => waited = PacingDelay
              /\ lastSummary = "failed" => waited = BackoffDelay

\* the search of the second query begins after the article accepted in the
\* first one was stored and the pacing delay has passed
C19_Witness ==
    /\ variant = "finance"
    /\ pc = "search"
    /\ qi = 2
    /\ lastSummary = "accepted"
    /\ waited = PacingDelay
    /\ Len(storeLog) = 1

\* C20: the list of accepted articles is only ever appended to, with the
\* article at the current position of the loops, and that position only
\* moves forward: first by query, then by article within the query.
C20_AppendInProcessingOrder ==
    [][/\ unique_articles' # unique_articles =>
             /\ pc = "summary_gate"
             /\ unique_articles' = Append(unique_articles, article)
       /\ qi' >= qi
       /\ (qi' = qi /\ pc # "search") => ci' >= ci
       /\ pc = "search" => ci' = ci \/ ci' = 1
      ]_vars

\* the second accepted article is the first article of the second query
C20_Witness ==
    /\ pc = "store"
    /\ qi = 2
    /\ ci = 1
    /\ Len(unique_articles) = 2
    /\ unique_articles[2] = article
    /\ unique_articles[1].url # article.url

\* C21: in every state the url of every accepted article is in unique_urls
\* and the number of rows inserted is at most the number of accepted
\* articles, hence at most the quota; and unique_urls never loses a url.
C21_SeenAndPersistedBounds ==
    /\ [](/\ \A i \in DOMAIN unique_articles :
                unique_articles[i].url \in unique_urls
          /\ inserted <= Len(unique_articles)
          /\ inserted <= Quota)
    /\ [][unique_urls \subseteq unique_urls']_vars

\* two articles were accepted, the insert of one of them did not succeed,
\* and a third url was marked without being accepted
C21_Witness ==
    /\ pc = "candidate"
    /\ Len(unique_articles) = 2
    /\ inserted = 1
    /\ Cardinality(unique_urls) = 3

====
